---- MODULE Spec2Model ----
(***************************************************************************)
(* Model of src/data/binance/client.rs: the Binance market-data client.    *)
(*                                                                         *)
(* Pure conversions (Interval -> wire token, ExchangeData -> Exchange,     *)
(* Klines -> DataFrame, str -> f32) are operators.  BinanceClient::new and *)
(* BinanceClient::get_symbol_data are split at their await points, where   *)
(* the transport collaborator answers.                                     *)
(***************************************************************************)
EXTENDS Integers, Sequences, FiniteSets, TLC

VARIABLES
    pc_new,        \* position of BinanceClient::new: start / ping / listing / ready / failed
    calls,         \* transport calls issued by BinanceClient::new, in order
    ping_resp,     \* what the transport answered to the connectivity check
    listing_resp,  \* what the transport answered to the listing fetch
    new_result,    \* Result<BinanceClient, BinanceError> of new(); the client holds `exchange`
    req,           \* per caller: the get_symbol_data future (arguments, position, result)
    arg,           \* input of the pure conversion under test
    ret,           \* its result
    got            \* result of a catalog lookup

vars == <<pc_new, calls, ping_resp, listing_resp, new_result, req, arg, ret, got>>

-----------------------------------------------------------------------------
(* Bounds *)

MaxListing == 2     \* symbols in one exchange listing
MaxKlines == 2      \* tuples in one kline sequence handed to the decoder
MaxBody == 1        \* tuples in one kline response of the transport
MaxMagnitude == 255 \* u8::MAX, the magnitude carried by an Interval

-----------------------------------------------------------------------------
(* Result<T, E>, Option<T>, and a panic unwinding out of the function *)

Ok(v) == [tag |-> "Ok", val |-> v]
Err(e) == [tag |-> "Err", val |-> e]
Panic(m) == [tag |-> "Panic", val |-> m]
NotCalled == [tag |-> "NotCalled"]

Some(v) == [some |-> TRUE, val |-> v]
None == [some |-> FALSE]

IsOk(r) == r.tag = "Ok"
IsErr(r) == r.tag = "Err"
IsPanic(r) == r.tag = "Panic"

(* enum BinanceError *)
SymbolNotFound(id) == [kind |-> "SymbolNotFound", id |-> id]
IntervalNotFound == [kind |-> "IntervalNotFound"]
RequestFailure(cause) == [kind |-> "RequestFailure", cause |-> cause]
ToDataFrameError(cause) == [kind |-> "ToDataFrameError", cause |-> cause]

ErrKind(r) == IF IsErr(r) THEN r.val.kind ELSE "none"

-----------------------------------------------------------------------------
(* enum Interval and its conversion to the wire token *)

Units == {"Minutes", "Hours", "Days", "Weeks", "Months"}

Interval(u, n) == [unit |-> u, n |-> n]

Intervals == [unit : Units, n : 0..MaxMagnitude]

to_wire_token_months_lower(interval) ==
    CASE interval = Interval("Minutes", 1) -> Ok("1m")
      [] interval = Interval("Minutes", 3) -> Ok("3m")
      [] interval = Interval("Minutes", 5) -> Ok("5m")
      [] interval = Interval("Minutes", 15) -> Ok("15m")
      [] interval = Interval("Minutes", 30) -> Ok("30m")
      [] interval = Interval("Hours", 1) -> Ok("1h")
      [] interval = Interval("Hours", 2) -> Ok("2h")
      [] interval = Interval("Hours", 4) -> Ok("4h")
      [] interval = Interval("Hours", 6) -> Ok("6h")
      [] interval = Interval("Hours", 8) -> Ok("8h")
      [] interval = Interval("Hours", 12) -> Ok("12h")
      [] interval = Interval("Days", 1) -> Ok("1d")
      [] interval = Interval("Days", 3) -> Ok("3d")
      [] interval = Interval("Weeks", 1) -> Ok("1w")
      [] interval = Interval("Months", 1) -> Ok("1m")
      [] OTHER -> Err(IntervalNotFound)

to_wire_token(interval) ==
    CASE interval = Interval("Minutes", 1) -> Ok("1m")
      [] interval = Interval("Minutes", 3) -> Ok("3m")
      [] interval = Interval("Minutes", 5) -> Ok("5m")
      [] interval = Interval("Minutes", 15) -> Ok("15m")
      [] interval = Interval("Minutes", 30) -> Ok("30m")
      [] interval = Interval("Hours", 1) -> Ok("1h")
      [] interval = Interval("Hours", 2) -> Ok("2h")
      [] interval = Interval("Hours", 4) -> Ok("4h")
      [] interval = Interval("Hours", 6) -> Ok("6h")
      [] interval = Interval("Hours", 8) -> Ok("8h")
      [] interval = Interval("Hours", 12) -> Ok("12h")
      [] interval = Interval("Days", 1) -> Ok("1d")
      [] interval = Interval("Days", 3) -> Ok("3d")
      [] interval = Interval("Weeks", 1) -> Ok("1w")
      [] interval = Interval("Months", 1) -> Ok("1M")
      [] OTHER -> Err(IntervalNotFound)

-----------------------------------------------------------------------------
(* str::parse::<f32>().  A string is a sequence of one-character strings.  *)
(*   Float  ::= Sign? ( 'inf' | 'infinity' | 'nan' | Number )              *)
(*   Number ::= ( Digit+ | Digit+ '.' Digit* | Digit* '.' Digit+ ) Exp?    *)
(*   Exp    ::= 'e' Sign? Digit+                                           *)
(* A finite value is [neg, m, e] = (-1)^neg * m * 10^e with m carrying no  *)
(* trailing zero, which identifies an f32 as long as m has at most six     *)
(* significant digits and the value lies in the normal range.              *)

Digits == {"0", "1", "2", "3", "4", "5", "6", "7", "8", "9"}

DigitVal(c) ==
    CASE c = "0" -> 0 [] c = "1" -> 1 [] c = "2" -> 2 [] c = "3" -> 3
      [] c = "4" -> 4 [] c = "5" -> 5 [] c = "6" -> 6 [] c = "7" -> 7
      [] c = "8" -> 8 [] c = "9" -> 9

Lower(c) ==
    CASE c = "I" -> "i" [] c = "N" -> "n" [] c = "F" -> "f" [] c = "A" -> "a"
      [] c = "T" -> "t" [] c = "Y" -> "y" [] c = "E" -> "e" [] OTHER -> c

LowerStr(s) == [i \in 1..Len(s) |-> Lower(s[i])]

AllDigits(s) == \A i \in 1..Len(s) : s[i] \in Digits

RECURSIVE DecVal(_)
DecVal(s) == IF Len(s) = 0 THEN 0 ELSE 10 * DecVal(SubSeq(s, 1, Len(s) - 1)) + DigitVal(s[Len(s)])

IsSign(c) == c \in {"+", "-"}

StripSign(s) == IF Len(s) > 0 /\ IsSign(s[1]) THEN Tail(s) ELSE s

IsNeg(s) == Len(s) > 0 /\ s[1] = "-"

\* index of the first occurrence of c in s, 0 when absent
IndexOf(s, c) == IF \E i \in 1..Len(s) : s[i] = c
                 THEN CHOOSE i \in 1..Len(s) : s[i] = c /\ \A j \in 1..(i - 1) : s[j] # c
                 ELSE 0

RECURSIVE Normalise(_, _)
Normalise(m, e) == IF m = 0 THEN <<0, 0>>
                   ELSE IF m % 10 = 0 THEN Normalise(m \div 10, e + 1)
                   ELSE <<m, e>>

RECURSIVE NumDigits(_)
NumDigits(m) == IF m < 10 THEN 1 ELSE 1 + NumDigits(m \div 10)

F32Finite(neg, m, e) == [kind |-> "finite", neg |-> neg, m |-> m, e |-> e]
F32Inf(neg) == [kind |-> "inf", neg |-> neg]
F32NaN == [kind |-> "nan"]

\* decimal magnitudes of at least 1e39 round to infinity, below 1e-46 to zero;
\* n is the normalised <<m, e>> and order the position of its leading digit
F32Range(neg, n, order) ==
    IF n[1] = 0 THEN F32Finite(neg, 0, 0)
    ELSE IF order >= 40 THEN F32Inf(neg)
    ELSE IF order <= -46 THEN F32Finite(neg, 0, 0)
    ELSE F32Finite(neg, n[1], n[2])

F32Order(neg, n) == F32Range(neg, n, NumDigits(n[1]) + n[2])

F32Round(neg, m, e) == F32Order(neg, Normalise(m, e))

ParseFloatError == [kind |-> "ParseFloatError"]

SignedVal(isNeg, digits) == IF isNeg THEN 0 - DecVal(digits) ELSE DecVal(digits)

\* integer part, fraction part and exponent digits of a Number
ParseFields(neg, ip, fp, hasExp, expNeg, expDigits) ==
    IF /\ AllDigits(ip) /\ AllDigits(fp) /\ Len(ip) + Len(fp) > 0
       /\ (hasExp => (Len(expDigits) > 0 /\ AllDigits(expDigits)))
    THEN Ok(F32Round(neg, DecVal(ip \o fp),
                     (IF hasExp THEN SignedVal(expNeg, expDigits) ELSE 0) - Len(fp)))
    ELSE Err(ParseFloatError)

\* split the mantissa at its first '.'
ParseMantissa(neg, mant, dot, hasExp, expo) ==
    ParseFields(neg,
                IF dot = 0 THEN mant ELSE SubSeq(mant, 1, dot - 1),
                IF dot = 0 THEN <<>> ELSE SubSeq(mant, dot + 1, Len(mant)),
                hasExp, IsNeg(expo), StripSign(expo))

\* split the number at its first 'e'
ParseNumber(neg, body, epos) ==
    ParseMantissa(neg,
                  IF epos = 0 THEN body ELSE SubSeq(body, 1, epos - 1),
                  IndexOf(IF epos = 0 THEN body ELSE SubSeq(body, 1, epos - 1), "."),
                  epos # 0,
                  IF epos = 0 THEN <<>> ELSE SubSeq(body, epos + 1, Len(body)))

ParseUnsigned(neg, body) ==
    IF body \in {<<"i", "n", "f">>, <<"i", "n", "f", "i", "n", "i", "t", "y">>}
    THEN Ok(F32Inf(neg))
    ELSE IF body = <<"n", "a", "n">> THEN Ok(F32NaN)
    ELSE ParseNumber(neg, body, IndexOf(body, "e"))

parse_f32(str) == ParseUnsigned(IsNeg(str), LowerStr(StripSign(str)))

-----------------------------------------------------------------------------
(* struct Symbol, struct ExchangeData, struct Exchange *)

Symbol(symbol, status, base, quote) ==
    [symbol |-> symbol, status |-> status,
     base_asset |-> base, base_asset_precision |-> 8,
     quote_asset |-> quote, quote_precision |-> 8,
     order_types |-> <<"LIMIT", "MARKET">>,
     iceberg_allowed |-> TRUE, oco_allowed |-> TRUE,
     quote_order_qty_market_allowed |-> TRUE,
     is_spot_trading_allowed |-> TRUE, is_margin_trading_allowed |-> FALSE,
     permissions |-> <<"SPOT">>]

ExchangeData(timezone, server_time, symbols) ==
    [timezone |-> timezone, server_time |-> server_time, symbols |-> symbols]

EmptyMap == [k \in {} |-> None]

\* HashMap::insert: the value of an existing key is replaced
HashMapInsert(map, k, v) == [x \in DOMAIN map \cup {k} |-> IF x = k THEN v ELSE map[x]]

\* HashMap::get
HashMapGet(map, k) == IF k \in DOMAIN map THEN Some(map[k]) ELSE None

SymbolKey_base_asset(symbol) == symbol.base_asset

\* the key under which from_listing files an entry: symbol.symbol.clone()
SymbolKey(symbol) == symbol.symbol

RECURSIVE InsertAll(_, _)
InsertAll(map, symbols) ==
    IF Len(symbols) = 0 THEN map
    ELSE InsertAll(HashMapInsert(map, SymbolKey(Head(symbols)), Head(symbols)), Tail(symbols))

\* impl From<ExchangeData> for Exchange
from_listing(data) ==
    [timezone |-> data.timezone,
     server_time |-> data.server_time,
     symbols |-> InsertAll(EmptyMap, data.symbols)]

\* self.exchange.symbols.get(symbol).ok_or(SymbolNotFound(symbol.to_owned()))
lookup(exchange, symbol) ==
    LET found == HashMapGet(exchange.symbols, symbol)
    IN  IF found.some THEN Ok(found.val) ELSE Err(SymbolNotFound(symbol))

-----------------------------------------------------------------------------
(* type Kline: the twelve positional fields of one candle *)

Kline(open_time, open, high, low, close, volume, close_time) ==
    <<open_time, open, high, low, close, volume, close_time,
      <<"0">>, 0, <<"0">>, <<"0">>, <<"0">>>>

EmptyColumns ==
    [open_time |-> <<>>, close_time |-> <<>>, open |-> <<>>, high |-> <<>>,
     low |-> <<>>, close |-> <<>>, volume |-> <<>>]

UnwrapPanic == Panic("unwrap on Err")

\* the pushes of one iteration, given the two timestamps and the five parse
\* results: unwrap() panics on the first Err
PushParsed(c, open_time, close_time, o, h, l, cl, v) ==
    IF \E r \in {o, h, l, cl, v} : ~IsOk(r) THEN UnwrapPanic
    ELSE Ok([open_time |-> Append(c.open_time, open_time),
             close_time |-> Append(c.close_time, close_time),
             open |-> Append(c.open, o.val),
             high |-> Append(c.high, h.val),
             low |-> Append(c.low, l.val),
             close |-> Append(c.close, cl.val),
             volume |-> Append(c.volume, v.val)])

PushRow_close_time_from_open(c, kline) ==
    PushParsed(c, kline[1], kline[1],
               parse_f32(kline[2]), parse_f32(kline[3]), parse_f32(kline[4]),
               parse_f32(kline[5]), parse_f32(kline[6]))

\* one iteration of the loop: destructure the tuple (open_time at position
\* 0, close_time at position 6), parse().unwrap() the five strings, push
PushRow(c, kline) ==
    PushParsed(c, kline[1], kline[7],
               parse_f32(kline[2]), parse_f32(kline[3]), parse_f32(kline[4]),
               parse_f32(kline[5]), parse_f32(kline[6]))

RECURSIVE PushRows(_, _)
\* the loop goes on with the next tuple unless the iteration panicked
PushRest(r, rest) == IF IsOk(r) THEN PushRows(r.val, rest) ELSE r

PushRows(c, klines) ==
    IF Len(klines) = 0 THEN Ok(c)
    ELSE PushRest(PushRow(c, Head(klines)), Tail(klines))

Series(name, values) == [name |-> name, values |-> values]

ColumnsOf(c) ==
    <<Series("open_time", c.open_time), Series("close_time", c.close_time),
      Series("open", c.open), Series("high", c.high), Series("low", c.low),
      Series("close", c.close), Series("volume", c.volume)>>

\* polars DataFrame::new: columns of unequal length or a repeated name are an error
DataFrame_new(cols) ==
    IF \E i, j \in 1..Len(cols) : Len(cols[i].values) # Len(cols[j].values)
    THEN Err("ShapeMismatch")
    ELSE IF \E i, j \in 1..Len(cols) : i # j /\ cols[i].name = cols[j].name
    THEN Err("Duplicate")
    ELSE Ok(cols)

ColumnsOfResult(r) == IF IsOk(r) THEN Ok(ColumnsOf(r.val)) ELSE r

\* fn klines_to_columns
klines_to_columns(klines) == ColumnsOfResult(PushRows(EmptyColumns, klines))

\* Ok(DataFrame::new(cols)?)
FrameOf(df) == IF IsOk(df) THEN df ELSE Err(ToDataFrameError(df.val))

FrameOfResult(r) == IF IsOk(r) THEN FrameOf(DataFrame_new(ColumnsOf(r.val))) ELSE r

\* impl TryFrom<Klines> for DataFrame
decode(klines) == FrameOfResult(PushRows(EmptyColumns, klines))

\* column of a decoded table, by name
Column(df, name) == (CHOOSE i \in 1..Len(df) : df[i].name = name)

ColumnValues(df, name) == df[Column(df, name)].values

-----------------------------------------------------------------------------
(* The transport collaborator (reqwest): what send() and json() can yield *)

Statuses == {200, 500}

NetworkError == [net |-> "err", status |-> 0]
HttpResponse(status) == [net |-> "ok", status |-> status]
NoResponse == [net |-> "none", status |-> 0]

Responses == {NetworkError} \cup {HttpResponse(st) : st \in Statuses}

\* a response body: one that does not deserialize into the requested type, or
\* the value it deserializes into
BadJson == [parses |-> FALSE]
JsonBody(v) == [parses |-> TRUE, val |-> v]

\* Response::error_for_status: a client or server error status becomes an Err
error_for_status_ignored(resp) == Ok(resp)

error_for_status(resp) ==
    IF resp.status >= 400 /\ resp.status <= 599
    THEN Err(RequestFailure("status")) ELSE Ok(resp)

\* send().await? : a network-level failure becomes RequestFailure
send(resp) == IF resp.net = "err" THEN Err(RequestFailure("network")) ELSE Ok(resp)

\* json::<T>().await? : a body that does not deserialize becomes RequestFailure
json(body) == IF body.parses THEN Ok(body.val) ELSE Err(RequestFailure("decode"))

-----------------------------------------------------------------------------
(* Inputs of the client *)

Timezones == {"UTC"}
ServerTimes == {1}

RequestIds == {"BTCUSDT", "XRPUSDT"}

ClientEntries ==
    {Symbol("BTCUSDT", "TRADING", "BTC", "USDT"),
     Symbol("BTCUSDT", "BREAK", "BTC", "USDT"),
     Symbol("btcusdt", "TRADING", "btc", "usdt")}

RECURSIVE SeqsUpTo(_, _)
SeqsUpTo(S, n) ==
    IF n = 0 THEN {<<>>}
    ELSE LET shorter == SeqsUpTo(S, n - 1)
         IN  shorter \cup {Append(q, x) : q \in shorter, x \in S}

ClientListings ==
    {ExchangeData(tz, t, syms) :
        tz \in Timezones, t \in ServerTimes, syms \in SeqsUpTo(ClientEntries, MaxListing)}

RequestIntervals == {Interval("Months", 1), Interval("Minutes", 2)}

\* the clock reads Now; `from` may lie before the epoch, in the past or in the future
Now == 2
FromValues == {-1, Now - 1, Now + 1}

GoodKline == Kline(1, <<"1", ".", "5">>, <<"2">>, <<"1">>, <<"1", ".", "5">>, <<"1", "0">>, 2)
BadKline == Kline(3, <<"x">>, <<"2">>, <<"1">>, <<"1", ".", "5">>, <<"1", "0">>, 4)

ClientKlines == {GoodKline, BadKline}

KlineBodies == {BadJson} \cup {JsonBody(k) : k \in SeqsUpTo(ClientKlines, MaxBody)}

ListingBodies == {BadJson} \cup {JsonBody(d) : d \in ClientListings}

Callers == {"r1", "r2"}

-----------------------------------------------------------------------------
(* BinanceClient *)

IdleRequest ==
    [pc |-> "idle", symbol |-> "", interval |-> Interval("none", 0), from |-> 0,
     sent |-> <<>>, resp |-> NoResponse, result |-> NotCalled]

Ready == pc_new = "ready"

\* the catalog owned by the constructed client
exchange == new_result.val.exchange

Init ==
    /\ pc_new = "start"
    /\ calls = <<>>
    /\ ping_resp = NoResponse
    /\ listing_resp = NoResponse
    /\ new_result = NotCalled
    /\ req = [r \in Callers |-> IdleRequest]
    /\ arg = NotCalled
    /\ ret = NotCalled
    /\ got = NotCalled

\* new(): Client::new() and the connectivity check is sent
New_Ping ==
    /\ pc_new = "start"
    /\ pc_new' = "ping"
    /\ calls' = Append(calls, "ping")
    /\ UNCHANGED <<ping_resp, listing_resp, new_result, req, arg, ret, got>>

\* new(): .send().await?.error_for_status()? on the ping, then get_exchange
\* sends the listing fetch
New_PingResponse(resp) ==
    /\ pc_new = "ping"
    /\ ping_resp' = resp
    /\ LET sent == send(resp)
           checked == IF IsOk(sent) THEN error_for_status(sent.val) ELSE sent
       IN  IF IsOk(checked)
           THEN /\ pc_new' = "listing"
                /\ calls' = Append(calls, "exchangeInfo")
                /\ UNCHANGED new_result
           ELSE /\ pc_new' = "failed"
                /\ new_result' = checked
                /\ UNCHANGED calls
    /\ UNCHANGED <<listing_resp, req, arg, ret, got>>

\* get_all_symbols: .send().await?.json::<ExchangeData>().await?, then
\* get_exchange converts it and new() returns the client
New_ListingResponse(resp, body) ==
    /\ pc_new = "listing"
    /\ listing_resp' = resp
    /\ LET sent == send(resp)
           data == IF IsOk(sent) THEN json(body) ELSE sent
       IN  IF IsOk(data)
           THEN /\ pc_new' = "ready"
                /\ new_result' = Ok([exchange |-> from_listing(data.val)])
           ELSE /\ pc_new' = "failed"
                /\ new_result' = data
    /\ UNCHANGED <<calls, ping_resp, req, arg, ret, got>>

Validate_interval_first(catalog, symbol, interval) ==
    LET token == to_wire_token(interval)
        found == lookup(catalog, symbol)
    IN  IF ~IsOk(token) THEN token
        ELSE IF ~IsOk(found) THEN found
        ELSE token

\* get_symbol_data, the two `?` before the request is built: the symbol
\* lookup, then the interval conversion
Validate(catalog, symbol, interval) ==
    LET found == lookup(catalog, symbol)
    IN  IF ~IsOk(found) THEN found
        ELSE to_wire_token(interval)

Limit == "1000"

\* .get(".../klines").query(&[("symbol", symbol), ("interval", interval_str), ("limit", "1000")])
KlineQuery(symbol, interval_str, from) ==
    [url |-> "klines",
     query |-> <<<<"symbol", symbol>>, <<"interval", interval_str>>, <<"limit", Limit>>>>]

GetSymbolData_Call_send_first(r, symbol, interval, from) ==
    /\ Ready
    /\ req[r].pc \in {"idle", "done"}
    /\ LET v == Validate(exchange, symbol, interval)
           started == [pc |-> "sent", symbol |-> symbol, interval |-> interval,
                       from |-> from, sent |-> <<KlineQuery(symbol, "1m", from)>>,
                       resp |-> NoResponse, result |-> NotCalled]
       IN  req' = [req EXCEPT ![r] =
                     IF IsOk(v) THEN started
                     ELSE [started EXCEPT !.pc = "done", !.result = v]]
    /\ UNCHANGED <<pc_new, calls, ping_resp, listing_resp, new_result, arg, ret, got>>

GetSymbolData_Call_checks_from(r, symbol, interval, from) ==
    /\ Ready
    /\ req[r].pc \in {"idle", "done"}
    /\ LET v == Validate(exchange, symbol, interval)
           started == [pc |-> "sent", symbol |-> symbol, interval |-> interval,
                       from |-> from, sent |-> <<>>,
                       resp |-> NoResponse, result |-> NotCalled]
       IN  req' = [req EXCEPT ![r] =
                     IF from < 0 \/ from > Now
                     THEN [started EXCEPT !.pc = "done", !.result = Err(RequestFailure("from"))]
                     ELSE IF IsOk(v)
                     THEN [started EXCEPT !.sent = <<KlineQuery(symbol, v.val, from)>>]
                     ELSE [started EXCEPT !.pc = "done", !.result = v]]
    /\ UNCHANGED <<pc_new, calls, ping_resp, listing_resp, new_result, arg, ret, got>>

\* get_symbol_data up to its first await: validate, then send the kline request
GetSymbolData_Call(r, symbol, interval, from) ==
    /\ Ready
    /\ req[r].pc \in {"idle", "done"}
    /\ LET v == Validate(exchange, symbol, interval)
           started == [pc |-> "sent", symbol |-> symbol, interval |-> interval,
                       from |-> from, sent |-> <<>>,
                       resp |-> NoResponse, result |-> NotCalled]
       IN  req' = [req EXCEPT ![r] =
                     IF IsOk(v)
                     THEN [started EXCEPT !.sent = <<KlineQuery(symbol, v.val, from)>>]
                     ELSE [started EXCEPT !.pc = "done", !.result = v]]
    /\ UNCHANGED <<pc_new, calls, ping_resp, listing_resp, new_result, arg, ret, got>>

\* what get_symbol_data returns once the transport has answered:
\* .send().await?.json::<Vec<Kline>>().await?.into(), then klines.try_into()?
Decoded(klines) == IF IsOk(klines) THEN decode(klines.val) ELSE klines

Deserialized(sent, body) == IF IsOk(sent) THEN json(body) ELSE sent

Finish(resp, body) == Decoded(Deserialized(send(resp), body))

GetSymbolData_Response_drops_symbol(r, resp, body) ==
    /\ Ready
    /\ req[r].pc = "sent"
    /\ req' = [req EXCEPT ![r].pc = "done", ![r].resp = resp,
                          ![r].result = Finish(resp, body)]
    /\ new_result' =
          IF IsOk(req'[r].result) THEN new_result
          ELSE Ok([exchange |->
                     [exchange EXCEPT !.symbols =
                         [k \in DOMAIN exchange.symbols \ {req[r].symbol} |->
                             exchange.symbols[k]]]])
    /\ UNCHANGED <<pc_new, calls, ping_resp, listing_resp, arg, ret, got>>

\* get_symbol_data from the transport's answer to its return
GetSymbolData_Response(r, resp, body) ==
    /\ Ready
    /\ req[r].pc = "sent"
    /\ req' = [req EXCEPT ![r].pc = "done", ![r].resp = resp,
                          ![r].result = Finish(resp, body)]
    /\ UNCHANGED <<pc_new, calls, ping_resp, listing_resp, new_result, arg, ret, got>>

Next ==
    \/ New_Ping
    \/ \E resp \in Responses : New_PingResponse(resp)
    \/ \E resp \in Responses, body \in ListingBodies :
          New_ListingResponse(resp, body)
    \/ \E r \in Callers, symbol \in RequestIds, interval \in RequestIntervals,
          from \in FromValues : GetSymbolData_Call(r, symbol, interval, from)
    \/ \E r \in Callers, resp \in Responses, body \in KlineBodies :
          GetSymbolData_Response(r, resp, body)

Spec == Init /\ [][Next]_vars

-----------------------------------------------------------------------------
(* The conversion to the wire token on every Interval value *)

InitInterval ==
    /\ Init!1 /\ Init!2 /\ Init!3 /\ Init!4 /\ Init!5 /\ Init!6
    /\ arg \in Intervals
    /\ ret = NotCalled
    /\ got = NotCalled

\* <&'static str>::try_from(interval)
TryFromInterval ==
    /\ ret = NotCalled
    /\ ret' = to_wire_token(arg)
    /\ UNCHANGED <<pc_new, calls, ping_resp, listing_resp, new_result, req, arg, got>>

NextInterval == TryFromInterval

SpecInterval == InitInterval /\ [][NextInterval]_vars

-----------------------------------------------------------------------------
(* The catalog built from a listing, and lookups in it *)

CatalogIds == {"BTCUSDT", "btcusdt", "ETHBTC"}
LookupIds == CatalogIds \cup {"XRPUSDT"}
CatalogStatuses == {"TRADING", "BREAK"}
CatalogServerTimes == {0, 1}

BaseOf(id) == CASE id = "BTCUSDT" -> "BTC" [] id = "btcusdt" -> "btc" [] id = "ETHBTC" -> "ETH"
QuoteOf(id) == CASE id = "BTCUSDT" -> "USDT" [] id = "btcusdt" -> "usdt" [] id = "ETHBTC" -> "BTC"

CatalogEntries == {Symbol(id, st, BaseOf(id), QuoteOf(id)) : id \in CatalogIds, st \in CatalogStatuses}

CatalogListings ==
    {ExchangeData(tz, t, syms) :
        tz \in Timezones, t \in CatalogServerTimes, syms \in SeqsUpTo(CatalogEntries, MaxListing)}

InitCatalog ==
    /\ Init!1 /\ Init!2 /\ Init!3 /\ Init!4 /\ Init!5 /\ Init!6
    /\ arg \in CatalogListings
    /\ ret = NotCalled
    /\ got = NotCalled

\* Exchange::from(data)
FromExchangeData ==
    /\ ret = NotCalled
    /\ ret' = Ok(from_listing(arg))
    /\ UNCHANGED <<pc_new, calls, ping_resp, listing_resp, new_result, req, arg, got>>

\* exchange.symbols.get(id).ok_or(SymbolNotFound(id))
Lookup(id) ==
    /\ IsOk(ret)
    /\ got' = [id |-> id, res |-> lookup(ret.val, id)]
    /\ UNCHANGED <<pc_new, calls, ping_resp, listing_resp, new_result, req, arg, ret>>

NextCatalog ==
    \/ FromExchangeData
    \/ \E id \in LookupIds : Lookup(id)

SpecCatalog == InitCatalog /\ [][NextCatalog]_vars

-----------------------------------------------------------------------------
(* The decoder on kline sequences *)

NumericStrings == {<<"1", ".", "5">>, <<"0", "2">>, <<".", "5", "e", "1">>}

OtherStrings == {<<>>, <<"1", ",", "5">>}

DecodeStrings == NumericStrings \cup OtherStrings

BaseStr == <<"7">>

\* a well-formed tuple in which one of the five numeric strings is replaced
DecodeKlines ==
    {Kline(t, o, BaseStr, BaseStr, BaseStr, BaseStr, t + 1) : t \in {1, 2}, o \in DecodeStrings}
    \cup {Kline(t, BaseStr, h, BaseStr, BaseStr, BaseStr, t + 1) : t \in {1, 2}, h \in DecodeStrings}
    \cup {Kline(t, BaseStr, BaseStr, l, BaseStr, BaseStr, t + 1) : t \in {1, 2}, l \in DecodeStrings}
    \cup {Kline(t, BaseStr, BaseStr, BaseStr, c, BaseStr, t + 1) : t \in {1, 2}, c \in DecodeStrings}
    \cup {Kline(t, BaseStr, BaseStr, BaseStr, BaseStr, v, t + 1) : t \in {1, 2}, v \in DecodeStrings}

InitDecode ==
    /\ Init!1 /\ Init!2 /\ Init!3 /\ Init!4 /\ Init!5 /\ Init!6
    /\ arg \in SeqsUpTo(DecodeKlines, MaxKlines)
    /\ ret = NotCalled
    /\ got = NotCalled

\* DataFrame::try_from(klines)
TryFromKlines ==
    /\ ret = NotCalled
    /\ ret' = decode(arg)
    /\ UNCHANGED <<pc_new, calls, ping_resp, listing_resp, new_result, req, arg, got>>

\* klines_to_columns(info)
KlinesToColumns ==
    /\ got = NotCalled
    /\ got' = klines_to_columns(arg)
    /\ UNCHANGED <<pc_new, calls, ping_resp, listing_resp, new_result, req, arg, ret>>

NextDecode ==
    \/ TryFromKlines
    \/ KlinesToColumns

SpecDecode == InitDecode /\ [][NextDecode]_vars

-----------------------------------------------------------------------------
(* Properties *)

\* the fixed table of supported intervals and their tokens
ReferenceTable ==
    {<<"Minutes", 1, "1m">>, <<"Minutes", 3, "3m">>, <<"Minutes", 5, "5m">>,
     <<"Minutes", 15, "15m">>, <<"Minutes", 30, "30m">>,
     <<"Hours", 1, "1h">>, <<"Hours", 2, "2h">>, <<"Hours", 4, "4h">>,
     <<"Hours", 6, "6h">>, <<"Hours", 8, "8h">>, <<"Hours", 12, "12h">>,
     <<"Days", 1, "1d">>, <<"Days", 3, "3d">>,
     <<"Weeks", 1, "1w">>, <<"Months", 1, "1M">>}

Supported(interval) == \E t \in ReferenceTable : t[1] = interval.unit /\ t[2] = interval.n

TokenOf(interval) == (CHOOSE t \in ReferenceTable : t[1] = interval.unit /\ t[2] = interval.n)[3]

InCatalog(symbol) == symbol \in DOMAIN exchange.symbols

Started(r) == req[r].pc \in {"sent", "done"}
Returned(r) == req[r].pc = "done"

NonSuccess(resp) == resp.net = "ok" /\ resp.status \notin 200..299

\* C1: a returned get_symbol_data call for a symbol absent from the catalog
\* with an unsupported interval has the result SymbolNotFound(symbol), never
\* IntervalNotFound
C1_SymbolBeforeInterval ==
    \A r \in Callers :
        (Returned(r) /\ ~InCatalog(req[r].symbol) /\ ~Supported(req[r].interval))
            => req[r].result = Err(SymbolNotFound(req[r].symbol))

C1_Witness ==
    \E r \in Callers :
        /\ Returned(r) /\ ~InCatalog(req[r].symbol) /\ ~Supported(req[r].interval)
        /\ req[r].result = Err(SymbolNotFound("XRPUSDT"))

\* C2: a kline request is on the wire only for a symbol found in the catalog
\* and a supported interval; a call with an unknown symbol or an unsupported
\* interval has returned an error with no transport call issued
C2_NoCallBeforeValidation ==
    \A r \in Callers :
        Started(r) =>
            /\ Len(req[r].sent) <= 1
            /\ Len(req[r].sent) = 1
                  => (InCatalog(req[r].symbol) /\ Supported(req[r].interval))
            /\ (~InCatalog(req[r].symbol) \/ ~Supported(req[r].interval))
                  => /\ Returned(r)
                     /\ req[r].sent = <<>>
                     /\ req[r].resp = NoResponse
                     /\ ErrKind(req[r].result) \in {"SymbolNotFound", "IntervalNotFound"}

C2_Witness ==
    \E r \in Callers :
        /\ Returned(r) /\ InCatalog(req[r].symbol) /\ ~Supported(req[r].interval)
        /\ req[r].result = Err(IntervalNotFound)
        /\ req[r].sent = <<>>

\* C3: when one of the five numeric strings of some tuple does not parse,
\* DataFrame::try_from returns the decode error value (ToDataFrameError) to
\* its caller
C3_DecodeFailureIsError ==
    (ret # NotCalled /\ \E i \in 1..Len(arg), f \in 2..6 : ~IsOk(parse_f32(arg[i][f])))
        => ErrKind(ret) = "ToDataFrameError"

C5_WireTokenTable ==
    ret # NotCalled =>
        ret = IF Supported(arg) THEN Ok(TokenOf(arg)) ELSE Err(IntervalNotFound)

C5_Witness ==
    /\ arg = Interval("Months", 1)
    /\ ret = Ok("1M")
    /\ ret # Ok("1m")

ListedIdsOf(data) == {data.symbols[i].symbol : i \in 1..Len(data.symbols)}

LastIndexOf(data, id) ==
    CHOOSE i \in 1..Len(data.symbols) :
        /\ data.symbols[i].symbol = id
        /\ \A j \in (i + 1)..Len(data.symbols) : data.symbols[j].symbol # id

\* C6: in the catalog built from a listing every key equals the symbol field
\* of its value, the keys are exactly the listed identifiers, a repeated
\* identifier maps to its last entry, and a lookup returns the entry of a
\* listed identifier and SymbolNotFound(id) for any other, matching exactly
C6_CatalogIndex ==
    IsOk(ret) =>
        LET m == ret.val.symbols
        IN  /\ \A k \in DOMAIN m : m[k].symbol = k
            /\ DOMAIN m = ListedIdsOf(arg)
            /\ \A k \in DOMAIN m : m[k] = arg.symbols[LastIndexOf(arg, k)]
            /\ ret.val.timezone = arg.timezone
            /\ ret.val.server_time = arg.server_time
            /\ got # NotCalled =>
                  IF got.id \in ListedIdsOf(arg)
                  THEN IsOk(got.res) /\ got.res.val.symbol = got.id
                  ELSE got.res = Err(SymbolNotFound(got.id))

C6_Witness ==
    /\ IsOk(ret)
    /\ Len(arg.symbols) = 2
    /\ arg.symbols[1].symbol = "BTCUSDT"
    /\ arg.symbols[2].symbol = "BTCUSDT"
    /\ arg.symbols[1].status # arg.symbols[2].status
    /\ got # NotCalled
    /\ got.id = "btcusdt"
    /\ got.res = Err(SymbolNotFound("btcusdt"))

AllParse(klines) == \A i \in 1..Len(klines), f \in 2..6 : IsOk(parse_f32(klines[i][f]))

ColumnNames == <<"open_time", "close_time", "open", "high", "low", "close", "volume">>

\* C7: a sequence of N tuples whose numeric strings all parse decodes to a
\* table of the seven columns, each of length N, whose row i holds positions
\* 0 and 6 of tuple i as open_time and close_time and the parsed values of
\* its positions 1 to 5
C7_DecodeRows ==
    (ret # NotCalled /\ AllParse(arg)) =>
        /\ IsOk(ret)
        /\ [i \in 1..Len(ret.val) |-> ret.val[i].name] = ColumnNames
        /\ \A c \in 1..7 : Len(ret.val[c].values) = Len(arg)
        /\ \A i \in 1..Len(arg) :
              /\ ret.val[1].values[i] = arg[i][1]
              /\ ret.val[2].values[i] = arg[i][7]
              /\ \A f \in 2..6 : ret.val[f + 1].values[i] = parse_f32(arg[i][f]).val

C7_Witness ==
    /\ IsOk(ret)
    /\ Len(arg) = 2
    /\ arg[1][1] = 2 /\ arg[2][1] = 1
    /\ arg[1][2] = <<"0", "2">>
    /\ ColumnValues(ret.val, "open_time") = <<2, 1>>
    /\ ColumnValues(ret.val, "close_time") = <<3, 2>>
    /\ ColumnValues(ret.val, "open")[1] = F32Finite(FALSE, 2, 0)

\* C8: once new() has returned the client, no step changes its catalog
C8_CatalogFrozen ==
    [][Ready => (pc_new' = "ready" /\ new_result' = new_result)]_vars

C8_Witness ==
    /\ Ready
    /\ \E r1, r2 \in Callers :
          /\ r1 # r2
          /\ Returned(r1) /\ ~IsOk(req[r1].result) /\ req[r1].resp # NoResponse
          /\ req[r2].pc = "sent"

FromRejected(from) == from < 0 \/ from > Now

\* C9 as stated: a call whose `from` lies in the future or before the epoch
\* does not pass validation
C9_FromValidated ==
    \A r \in Callers :
        (Started(r) /\ FromRejected(req[r].from))
            => (Returned(r) /\ req[r].sent = <<>> /\ IsErr(req[r].result))

\* C9 amended: `from` is not validated and has no effect: whatever its value,
\* a call with a catalogued symbol and a supported interval sends the request
\* carrying exactly symbol, interval token and the fixed limit, and any other
\* call returns the symbol or interval error
C9_FromIgnored ==
    \A r \in Callers :
        Started(r) =>
            IF InCatalog(req[r].symbol) /\ Supported(req[r].interval)
            THEN req[r].sent =
                    <<[url |-> "klines",
                       query |-> <<<<"symbol", req[r].symbol>>,
                                   <<"interval", TokenOf(req[r].interval)>>,
                                   <<"limit", "1000">>>>]>>
            ELSE /\ Returned(r)
                 /\ req[r].result =
                       IF InCatalog(req[r].symbol) THEN Err(IntervalNotFound)
                       ELSE Err(SymbolNotFound(req[r].symbol))

C9_Witness ==
    \E r \in Callers :
        /\ req[r].pc = "sent"
        /\ req[r].from > Now
        /\ Len(req[r].sent) = 1

\* C10: a network-level failure or a non-success status on the connectivity
\* check, the listing fetch or the kline fetch makes the enclosing operation
\* fail with RequestFailure
C10_TransportFailureFails ==
    /\ (ping_resp.net = "err" \/ NonSuccess(ping_resp)
        \/ listing_resp.net = "err" \/ NonSuccess(listing_resp))
          => (pc_new = "failed" /\ ErrKind(new_result) = "RequestFailure")
    /\ \A r \in Callers :
          (Returned(r) /\ (req[r].resp.net = "err" \/ NonSuccess(req[r].resp)))
              => ErrKind(req[r].result) = "RequestFailure"

====
